---- MODULE Spec2Model ----
(***************************************************************************)
(* Email-to-WhatsApp forwarder: the orchestrator (app.js), the mail        *)
(* session and attachment store (gmailService.js) and the forwarding       *)
(* gateway (whatsappService.js), as one state machine.                     *)
(*                                                                         *)
(* Every `await` of the source is a control point of a frame (one          *)
(* invocation of processEmails); the code between two awaits is one        *)
(* atomic action, as on the JavaScript event loop.                         *)
(***************************************************************************)
EXTENDS Integers, Sequences, FiniteSets, TLC

\* ---------------------------------------------------------------- bounds
\* processEmails invocations that may be in flight at once
MaxFrames == 2
\* messages in the mailbox of the single-cycle specification
MaxUid == 2
\* messages in the mailbox of the lifecycle specification
LifeUids == 1
\* raw attachments of one parsed message
MaxAtt == 2
\* largest value Date.now() takes (milliseconds, from 0)
MaxClock == 1
\* Imap objects alive at once
MaxConn == 2
\* characters of the configured sender list
MaxSenderLen == 5
\* files in the attachments directory when a sweep is observed on its own
MaxStored == 2
\* characters of the configured target number
MaxNumberLen == 4
\* characters of a message's HTML body
MaxHtmlLen == 4

\* ------------------------------------------------------ program constants
\* config.app.maxAttachmentSizeMB (default of MAX_ATTACHMENT_SIZE_MB)
maxAttachmentSizeMB == 25
\* the argument of cleanupAttachments in the daily timer's callback
daysToKeep == 7
\* 1024 * 1024, the divisor of processEmail's sizeMB
BytesPerMB == 1024 * 1024

Frames == 1..MaxFrames
Conns == 1..MaxConn
Names == {"a", "b"}
\* payload sizes: scenario B's 2 MB, and both sides of the ceiling
Sizes == {2 * BytesPerMB, maxAttachmentSizeMB * BytesPerMB,
          maxAttachmentSizeMB * BytesPerMB + 1}
Raw == [name : Names, size : Sizes]
Stamps == 0..MaxClock
Paths == Stamps \X Names

SeqsUpTo(S, n) == UNION {[1..k -> S] : k \in 0..n}

VARIABLES
    isRunning,      \* EmailToWhatsAppForwarder.isRunning
    checkInterval,  \* EmailToWhatsAppForwarder.checkInterval: "null" | "armed"
    sweepTimer,     \* the daily setInterval of start(): "none" | "armed"
    startPc,        \* where start() is
    shutdownPc,     \* where the signal handler is
    sweepPc,        \* cleanupAttachments: "idle", or the call it is
                    \* waiting on: "readdir" | "stat" | "unlink"
    exitCode,       \* process.exit status ("0", "1"), "none" while the
                    \* process lives
    env,            \* what startup meets: the configuration, the storage
                    \* directory and the gateway instance's state
    imap,           \* GmailService.imap: 0 (null) or the Imap object's id
    isConnected,    \* GmailService.isConnected
    conn,           \* each Imap object's state
    unseen,         \* the server's unread messages of the allowed senders
    mailbox,        \* each message's raw attachments as simpleParser gives
                    \* them, not known before the message is first fetched
    now,            \* the last value Date.now() returned
    files,          \* paths present in the attachments directory
    mtime,          \* stats.mtimeMs of each stored path (0 when absent)
    sweep,          \* the locals of the latest cleanupAttachments call
    frame,          \* the processEmails invocations
    issued          \* MailSession / timer calls made by the latest step

vars == <<isRunning, checkInterval, sweepTimer, startPc, shutdownPc, sweepPc,
          exitCode, env, imap, isConnected, conn, unseen, mailbox, now, files,
          mtime, sweep, frame, issued>>

appVars == <<isRunning, checkInterval, sweepTimer, startPc, shutdownPc,
             sweepPc, exitCode, env>>
sessVars == <<imap, isConnected, conn>>
mailVars == <<unseen, mailbox>>
fsVars == <<now, files, mtime, sweep>>

\* ---------------------------------------------------------------- frames
\* The bodies of the messages of all runs but those on the body itself: a
\* plain text of one character, no HTML.
DefaultText == <<"x">>
Unknown == [known |-> FALSE, atts |-> <<>>, text |-> DefaultText, html |-> <<>>]
Known(raw) == [Unknown EXCEPT !.known = TRUE, !.atts = raw]
\* processedData of processEmail (gmailService.js 196-205), with the log of
\* the fs.writeFile calls made for it.
NoEmail ==
    [uid |-> 0, atts |-> <<>>, skipped |-> <<>>, writes |-> <<>>,
     text |-> <<>>, html |-> <<>>]
NoErr == [cls |-> "none", sig |-> FALSE]

IdleFrame ==
    [pc |-> "idle", uids |-> <<>>, ui |-> 0, fetched |-> <<>>,
     cur |-> NoEmail, path |-> <<0, "a">>, emails |-> <<>>, ei |-> 0,
     ai |-> 0, sends |-> <<>>, acks |-> <<>>, outcome |-> <<>>,
     unlinked |-> <<>>, k |-> 0, err |-> NoErr, query |-> <<>>,
     results |-> <<>>, body |-> <<>>]

Free(c) == frame[c].pc \in {"idle", "done"}
InFlight(c) == ~Free(c)

\* The email being forwarded, and the attachment at hand.
Email(f) == f.emails[f.ei]
Att(f) == Email(f).atts[f.ai]

\* ---------------------------------------------------------- the message body
\* A string is the sequence of its characters. A body is made here of the
\* characters "<", ">", "/", "p", "x", blank and newline, and of image
\* placeholders, "[image: f]", each taken as one character; so are the code
\* fence, "[fence]", and the note put around a placeholder.
Whitespace == {" ", "\n"}

\* String.prototype.trim() (gmailService.js 118, formatter.js 45): white
\* space is dropped at the start, then at the end.
RECURSIVE TrimStart(_)
TrimStart(str) ==
    IF Len(str) > 0 /\ str[1] \in Whitespace THEN TrimStart(Tail(str)) ELSE str
RECURSIVE TrimEnd(_)
TrimEnd(str) ==
    IF Len(str) > 0 /\ str[Len(str)] \in Whitespace
    THEN TrimEnd(SubSeq(str, 1, Len(str) - 1))
    ELSE str
Trim(str) == TrimEnd(TrimStart(str))

\* formatter.js 24: each closing tag of a block becomes a newline; of those
\* tags only </p> can be written with the characters of a body.
RECURSIVE BlockBreaks(_)
BlockBreaks(str) ==
    IF Len(str) = 0 THEN <<>>
    ELSE IF Len(str) >= 4 /\ SubSeq(str, 1, 4) = <<"<", "/", "p", ">">>
    THEN <<"\n">> \o BlockBreaks(SubSeq(str, 5, Len(str)))
    ELSE <<str[1]>> \o BlockBreaks(Tail(str))

\* formatter.js 29: /<[^>]+>/g, from the left: a "<", one or more characters
\* other than ">", and the first ">" after them are removed.
RECURSIVE NoTags(_)
NoTags(str) ==
    IF Len(str) = 0 THEN <<>>
    ELSE LET closers == {j \in 3..Len(str) : str[j] = ">"}
         IN  IF str[1] = "<" /\ Len(str) >= 3 /\ str[2] # ">" /\ closers # {}
             THEN NoTags(SubSeq(str,
                                1 + CHOOSE j \in closers :
                                        \A k \in closers : j <= k,
                                Len(str)))
             ELSE <<str[1]>> \o NoTags(Tail(str))

\* formatter.js 45: /\n\s*\n/g, from the left: a newline, the white space
\* after it and the last newline of that white space become one newline.
RECURSIVE BlankLines(_)
BlankLines(str) ==
    IF Len(str) = 0 THEN <<>>
    ELSE LET ends == {j \in 2..Len(str) :
                         /\ str[j] = "\n"
                         /\ \A k \in 1..j : str[k] \in Whitespace}
         IN  IF str[1] = "\n" /\ ends # {}
             THEN <<"\n">> \o BlankLines(SubSeq(str,
                                1 + CHOOSE j \in ends : \A k \in ends : j >= k,
                                Len(str)))
             ELSE <<str[1]>> \o BlankLines(Tail(str))

\* A stripHtml the source does not have: the tags are left in.
StripHtmlKeepsTags(html) ==
    IF Len(html) = 0 THEN <<>> ELSE Trim(BlankLines(html))

\* stripHtml (formatter.js 14-48). Its other patterns (script and style
\* blocks, the block tags but </p>, br and hr, the entities) need characters
\* a body does not have here.
StripHtml(html) ==
    IF Len(html) = 0 THEN <<>>
    ELSE Trim(BlankLines(NoTags(BlockBreaks(html))))

\* formatImagePlaceholders (imported at whatsappService.js 19, not among the
\* sources; formatter.test.js 57-74): each image placeholder is put in a
\* code fence with a note, all else is left as it is.
RECURSIVE FormatImagePlaceholders(_)
FormatImagePlaceholders(text) ==
    IF Len(text) = 0 THEN <<>>
    ELSE (IF text[1] = "[image: f]"
          THEN <<"[fence]", "\n", "[image: f]", " => Lihat di attachment",
                 "\n", "[fence]">>
          ELSE <<text[1]>>) \o FormatImagePlaceholders(Tail(text))

\* A choice of body the source does not have: the HTML body first.
RawBodyTextHtmlFirst(emailData) ==
    IF Len(emailData.html) > 0 THEN StripHtml(emailData.html)
    ELSE emailData.text

\* rawBodyText (whatsappService.js 179-186).
RawBodyText(emailData) ==
    IF Len(emailData.text) > 0 THEN emailData.text
    ELSE IF Len(emailData.html) > 0 THEN StripHtml(emailData.html)
    ELSE <<>>

\* body (whatsappService.js 187), which the message of the primary text
\* send carries (197, 203).
Body(emailData) == FormatImagePlaceholders(RawBodyText(emailData))

\* ------------------------------------------ whatsappService.formatPhoneNumber
\* A string is the sequence of its characters. \D of the regular expression
\* is any character but these.
Digits == {"0", "1", "2", "3", "4", "5", "6", "7", "8", "9"}

\* A replace the source does not have: nothing is removed.
CleanedKeepsAll(str) == str

\* phoneNumber.replace(/\D/g, "") (whatsappService.js 63): the characters
\* that are not digits are removed, left to right.
RECURSIVE Cleaned(_)
Cleaned(str) ==
    IF Len(str) = 0 THEN <<>>
    ELSE IF Head(str) \in Digits THEN <<Head(str)>> \o Cleaned(Tail(str))
    ELSE Cleaned(Tail(str))

\* A formatPhoneNumber the source does not have: the country code is put in
\* front of every number.
FormatPhoneNumberPrefixed(phoneNumber) ==
    <<"6", "2">> \o Cleaned(phoneNumber) \o <<"@", "c", ".", "u", "s">>

\* formatPhoneNumber (whatsappService.js 61-72).
FormatPhoneNumber(phoneNumber) ==
    LET cleaned == Cleaned(phoneNumber)
        coded == IF Len(cleaned) > 0 /\ cleaned[1] = "0"
                 THEN <<"6", "2">> \o SubSeq(cleaned, 2, Len(cleaned))
                 ELSE cleaned
    IN  coded \o <<"@", "c", ".", "u", "s">>

\* A sendFile the source does not have: the recipient is used as configured.
SendFileUnformatted(kind, j) ==
    [kind |-> kind, att |-> j,
     chatId |-> IF kind = "file" THEN env.targetNumber
                ELSE FormatPhoneNumber(env.targetNumber)]

\* One gateway call of the current forward: sendTextMessage / sendFile, with
\* the chat id it addresses (whatsappService.js 103, 134).
Send(kind, j) ==
    [kind |-> kind, att |-> j,
     chatId |-> FormatPhoneNumber(env.targetNumber)]

\* -------------------------------------------- whatsappService.forwardEmail
\* A processEmails the source does not have: a cycle that met an error
\* rejects instead of returning.
CycleDoneRethrows(f) ==
    [f EXCEPT !.pc = IF f.err.cls = "none" THEN "done" ELSE "rejected"]

\* processEmails returns (app.js 58-132).
CycleDone(f) == [f EXCEPT !.pc = "done"]

\* The for loop of processEmails reaches email i (app.js 71-73): forwardEmail
\* renders the message and issues the primary text send
\* (whatsappService.js 169-203).
ForwardEmailAt(f, i) ==
    IF i > Len(f.emails) THEN CycleDone(f)
    ELSE [f EXCEPT !.ei = i, !.ai = 0, !.pc = "text",
                   !.body = Body(f.emails[i]),
                   !.sends = <<Send("text", 0)>>, !.acks = <<>>]

\* The cleanup loop after a successful forward (app.js 76-89): fs.unlink of
\* attachment j is issued, or the loop is over.
UnlinkFrom(f, j) ==
    IF j <= Len(Email(f).atts)
    THEN [f EXCEPT !.pc = "unlink", !.ai = j,
                   !.unlinked = Append(@, <<f.ei, Email(f).atts[j].path>>)]
    ELSE ForwardEmailAt(f, f.ei + 1)

\* forwardEmail resolves (whatsappService.js 237): the caller cleans up.
ForwardResolved(f) == UnlinkFrom([f EXCEPT !.outcome = Append(@, "ok")], 1)

\* forwardEmail rejects (whatsappService.js 238-241): the catch of
\* processEmails issues the failure notification (app.js 90-102).
ForwardRejected(f) ==
    [f EXCEPT !.outcome = Append(@, "rejected"), !.pc = "notify",
              !.sends = Append(@, Send("alert", 0))]

\* A forwardEmail variant the source does not have: no skip summary.
AfterAttachmentsNoSummary(f) == ForwardResolved(f)

\* After the attachment loop (whatsappService.js 227-235).
AfterAttachments(f) ==
    IF Len(Email(f).skipped) > 0
    THEN [f EXCEPT !.pc = "summary", !.sends = Append(@, Send("summary", 0))]
    ELSE ForwardResolved(f)

\* The attachment loop reaches attachment j (whatsappService.js 206-214).
SendFileAt(f, j) ==
    IF j <= Len(Email(f).atts)
    THEN [f EXCEPT !.pc = "file", !.ai = j,
                   !.sends = Append(@, Send("file", j))]
    ELSE AfterAttachments(f)

\* Two forwardEmail variants the source does not have: the attachment loop
\* entered at the second attachment, and entered after a failed text send.
OnTextOkFromSecond(f) == SendFileAt(f, 2)
OnTextFailGoesOn(f) == SendFileAt(f, 1)

\* whatsappService.js 203: the text send is acknowledged / fails.
OnTextOk(f) == SendFileAt(f, 1)
OnTextFail(f) == ForwardRejected(f)
\* A forwardEmail variant the source does not have: the next attachment
\* follows an acknowledged file send at once.
OnFileOkNoDelay(f) == SendFileAt(f, f.ai + 1)
\* whatsappService.js 209-215: the file send is acknowledged: delay(2000).
OnFileOk(f) == [f EXCEPT !.pc = "delay"]
\* whatsappService.js 216-223: the file send fails: the notice is issued.
OnFileFail(f) ==
    [f EXCEPT !.pc = "notice", !.sends = Append(@, Send("notice", f.ai))]
OnDelay(f) == SendFileAt(f, f.ai + 1)
\* whatsappService.js 223-225: the notice is acknowledged, or its failure
\* leaves the inner catch and reaches the outer one (238-241).
OnNoticeOk(f) == SendFileAt(f, f.ai + 1)
OnNoticeFail(f) == ForwardRejected(f)
\* whatsappService.js 233-234.
OnSummaryOk(f) == [f EXCEPT !.pc = "delayS"]
OnSummaryFail(f) == ForwardRejected(f)
OnDelayS(f) == ForwardResolved(f)
\* app.js 79-88: unlink done or failed, either way the loop goes on.
OnUnlink(f) == UnlinkFrom(f, f.ai + 1)
\* A processEmails variant the source does not have: a failed forward ends
\* the cycle.
OnNotifyAborts(f) == CycleDone(f)

\* app.js 100-108: the notification sent or not, the loop goes on.
OnNotify(f) == ForwardEmailAt(f, f.ei + 1)

Acked(f, ok) == [f EXCEPT !.acks = Append(@, ok)]

\* -------------------------------------------------- gmailService.checkEmails
\* The orders a server may report the identifiers of a set in, or readdir
\* the files of a directory.
Orders(S) ==
    {o \in [1..Cardinality(S) -> S] :
        \A i, j \in 1..Cardinality(S) : i # j => o[i] # o[j]}

\* A search callback the source does not have: the identifiers are sorted
\* before they are handed on.
ResultsSorted(results) ==
    LET S == {results[i] : i \in 1..Len(results)}
    IN  [i \in 1..Len(results) |->
            CHOOSE x \in S : Cardinality({y \in S : y < x}) = i - 1]

\* The search callback (gmailService.js 137-148): resolve(results), as the
\* server reported them.
Results(results) == results

\* The elements of a set, ascending.
RECURSIVE Ascending(_)
Ascending(S) ==
    IF S = {} THEN <<>>
    ELSE LET m == CHOOSE x \in S : \A y \in S : x <= y
         IN  <<m>> \o Ascending(S \ {m})

\* checkEmails returns processedEmails (gmailService.js 275); processEmails
\* returns at once when there are none (app.js 64-67).
ReturnEmails(f) ==
    IF Len(f.emails) = 0 THEN CycleDone(f) ELSE ForwardEmailAt(f, 1)

\* The for loop of checkEmails reaches identifier i (gmailService.js 264-266):
\* fetchEmail issues the fetch.
FetchAt(f, i) ==
    IF i <= Len(f.uids)
    THEN [f EXCEPT !.pc = "fetch", !.ui = i,
                   !.fetched = Append(@, f.uids[i])]
    ELSE ReturnEmails(f)

\* ----------------------------------- gmailService.searchUnreadFromSenders
\* A string is the sequence of its characters; Chars are the characters a
\* configured sender list is made of here: two letters, the separator and
\* white space.
Chars == {"a", "b", ",", " "}
\* The target number all but the address normalisation run under.
DefaultTarget == <<"0", "8">>
\* The sender list the lifecycle, the single cycle and the single message
\* run under: one address.
DefaultSender == <<"a">>

\* String.prototype.split(",") (gmailService.js 117): the pieces between
\* the commas, in order; a string without comma is its own single piece.
RECURSIVE Split(_)
Split(str) ==
    IF \A i \in 1..Len(str) : str[i] # "," THEN <<str>>
    ELSE LET i == CHOOSE i \in 1..Len(str) :
                      str[i] = "," /\ \A j \in 1..(i - 1) : str[j] # ","
         IN  <<SubSeq(str, 1, i - 1)>> \o Split(SubSeq(str, i + 1, Len(str)))

\* senders (gmailService.js 116-119): split, each piece trimmed, the empty
\* ones filtered out.
Senders(str) ==
    LET pieces == Split(str)
    IN  SelectSeq([i \in 1..Len(pieces) |-> Trim(pieces[i])],
                  LAMBDA s : Len(s) > 0)

\* The items of an IMAP search criteria array: a bare keyword such as
\* "UNSEEN" or "OR" has no operand, ["FROM", sender] has the sender.
Keyword(key) == [key |-> key, val |-> <<>>]
From(sender) == [key |-> "FROM", val |-> sender]

\* senderCriteria (gmailService.js 128).
SenderCriteria(senders) == [i \in 1..Len(senders) |-> From(senders[i])]

\* A criteria array the source does not build: OR whatever the number of
\* senders.
SearchCriteriaAlwaysOr(senders) ==
    <<Keyword("UNSEEN"), Keyword("OR")>> \o SenderCriteria(senders)

\* searchCriteria (gmailService.js 127-135).
SearchCriteria(senders) ==
    IF Len(senders) > 1
    THEN <<Keyword("UNSEEN"), Keyword("OR")>> \o SenderCriteria(senders)
    ELSE <<Keyword("UNSEEN")>> \o SenderCriteria(senders)

\* An early-out test the source does not have: the search is always issued.
NoSendersNever(senders) == FALSE

\* gmailService.js 121.
NoSenders(senders) == Len(senders) = 0

\* A size gate the source does not have: a payload of exactly the ceiling
\* is skipped.
ExceedsFromCeiling(size) == size >= maxAttachmentSizeMB * BytesPerMB

\* The size gate (gmailService.js 211-212): sizeMB = size / (1024 * 1024) is
\* exact in double precision for a byte count, so sizeMB > limit is this
\* integer comparison.
Exceeds(size) == size > maxAttachmentSizeMB * BytesPerMB

Skipped(raw) ==
    [name |-> raw.name, size |-> raw.size, reason |-> "Exceeds size limit"]

\* processEmail's loop from raw attachment j on (gmailService.js 207-246), up
\* to its next await: an attachment over the ceiling is recorded as skipped,
\* the first one that is not is written under <<Date.now(), filename>> (t is
\* that reading of the clock); after the last one processedData is returned
\* and pushed (gmailService.js 267-268).
RECURSIVE ProcessFrom(_, _, _, _)
ProcessFrom(f, raw, j, t) ==
    IF j > Len(raw)
    THEN FetchAt([f EXCEPT !.emails = Append(@, f.cur)], f.ui + 1)
    ELSE IF Exceeds(raw[j].size)
    THEN ProcessFrom([f EXCEPT !.cur.skipped = Append(@, Skipped(raw[j]))],
                     raw, j + 1, t)
    ELSE [f EXCEPT !.pc = "write", !.ai = j, !.path = <<t, raw[j].name>>]

\* The attachment reference pushed after a successful write
\* (gmailService.js 229-234).
Ref(raw, path) == [name |-> raw.name, path |-> path, size |-> raw.size]

\* One fs.writeFile call (gmailService.js 225-227) and how it settled.
Wrote(f, ok) == [att |-> f.ai, path |-> f.path, ok |-> ok]

\* A processEmail the source does not have: a failed write rejects, and the
\* message is dropped by the catch of checkEmails.
OnWriteFailRejects(f, raw, t) ==
    FetchAt([f EXCEPT !.cur.writes = Append(@, Wrote(f, FALSE))], f.ui + 1)

\* fs.writeFile rejects (gmailService.js 236-241): the catch inside the loop
\* logs it and the loop goes on with the next attachment.
OnWriteFail(f, raw, t) ==
    ProcessFrom([f EXCEPT !.cur.writes = Append(@, Wrote(f, FALSE))],
                raw, f.ai + 1, t)

\* A checkEmails the source does not have: a failed fetch is reported to the
\* destination.
OnFetchFailNotifies(f) ==
    [f EXCEPT !.pc = "notify", !.sends = Append(@, Send("alert", 0))]

\* fetchEmail rejects (gmailService.js 270-272): logged, next identifier.
OnFetchFail(f) == FetchAt(f, f.ui + 1)

\* ------------------------------------------------------------ MailSession
SessionReady == imap # 0 /\ conn[imap] = "ready"

\* Errors a mail-server step raises: cls is what went wrong, sig is whether
\* error.message contains "IMAP" or "connection" (app.js 115-118).
ConnectErrs == [cls : {"auth", "transport"}, sig : BOOLEAN]
StepErrs == [cls : {"transport", "protocol"}, sig : BOOLEAN]

\* The reconnect test of processEmails' catch (app.js 115-118).
NeedsReconnect(err) == err.sig

Awaited(k) ==
    \E c \in Frames : frame[c].pc \in {"connect", "reconnect"} /\ frame[c].k = k

\* Imap object ids that stand for no live object and no pending promise.
FreeConns(cn) == {k \in Conns : cn[k] \in {"none", "closed"} /\ ~Awaited(k)}
Lowest(S) == CHOOSE k \in S : \A j \in S : k <= j

\* The test of disconnect() (gmailService.js 287): imap.end() is called.
EndCalled(connected) == imap # 0 /\ connected

\* disconnect() (gmailService.js 286-290): imap.end() when connected; the
\* call changes nothing on a connection that is ending or over already.
Disconnected(cn, connected) ==
    IF EndCalled(connected) /\ cn[imap] \in {"connecting", "ready"}
    THEN [cn EXCEPT ![imap] = "ending"]
    ELSE cn

\* The catch of processEmails (app.js 111-131) for frame c and error err,
\* on top of the session state <<cn, connected>> the failing step left:
\* disconnect() then connect() when the message matches, nothing otherwise.
CycleError(c, err, cn, connected) ==
    IF NeedsReconnect(err)
    THEN LET cn2 == Disconnected(cn, connected)
         IN  /\ FreeConns(cn2) # {}
             /\ LET k == Lowest(FreeConns(cn2))
                IN  /\ conn' = [cn2 EXCEPT ![k] = "connecting"]
                    /\ imap' = k
                    /\ frame' = [frame EXCEPT ![c] =
                          [@ EXCEPT !.pc = "reconnect", !.k = k, !.err = err]]
             /\ isConnected' = connected
             /\ issued' = <<"disconnect", "connect">>
    ELSE /\ conn' = cn
         /\ imap' = imap
         /\ isConnected' = connected
         /\ frame' = [frame EXCEPT ![c] = [@ EXCEPT !.pc = "done", !.err = err]]
         /\ issued' = <<>>

\* processEmails() is called (app.js 58-62): checkEmails connects when
\* isConnected is false (gmailService.js 256-258), else opens the inbox
\* (gmailService.js 260).
BeginCycle(c) ==
    IF ~isConnected
    THEN /\ FreeConns(conn) # {}
         /\ LET k == Lowest(FreeConns(conn))
            IN  /\ conn' = [conn EXCEPT ![k] = "connecting"]
                /\ imap' = k
                /\ frame' = [frame EXCEPT ![c] =
                                [IdleFrame EXCEPT !.pc = "connect", !.k = k]]
         /\ issued' = <<"connect">>
    ELSE /\ frame' = [frame EXCEPT ![c] = [IdleFrame EXCEPT !.pc = "open"]]
         /\ issued' = <<>>
         /\ UNCHANGED <<imap, conn>>

Alive == exitCode = "none"

SetFrame(c, f) == frame' = [frame EXCEPT ![c] = f]

\* ------------------------------------------------- the mail connection
\* The "ready" handler (gmailService.js 70-74): isConnected is set and the
\* connect promise resolves; checkEmails goes on to openInbox
\* (gmailService.js 260), the reconnect branch to its end (app.js 123).
ConnReady(k) ==
    /\ Alive
    /\ conn[k] = "connecting"
    /\ conn' = [conn EXCEPT ![k] = "ready"]
    /\ isConnected' = TRUE
    /\ frame' = [c \in Frames |->
                   IF frame[c].k = k /\ frame[c].pc = "connect"
                   THEN [frame[c] EXCEPT !.pc = "open"]
                   ELSE IF frame[c].k = k /\ frame[c].pc = "reconnect"
                   THEN CycleDone(frame[c])
                   ELSE frame[c]]
    /\ issued' = <<>>
    /\ UNCHANGED <<appVars, imap, mailVars, fsVars>>

\* The "error" handler (gmailService.js 76-80): isConnected is cleared and
\* the connect promise, when still pending, rejects: to the catch of
\* processEmails through checkEmails (gmailService.js 276-280), or to the
\* catch of the reconnect branch (app.js 124-129).
ConnError(k) ==
    /\ Alive
    /\ conn[k] \in {"connecting", "ready"}
    /\ LET cn == [conn EXCEPT ![k] = "closed"]
           W == {c \in Frames : frame[c].k = k
                                /\ frame[c].pc \in {"connect", "reconnect"}}
       IN  IF \E c \in W : frame[c].pc = "connect"
           THEN \E err \in ConnectErrs :
                    CycleError(CHOOSE c \in W : TRUE, err, cn, FALSE)
           ELSE /\ conn' = cn
                /\ isConnected' = FALSE
                /\ frame' = [c \in Frames |->
                               IF c \in W THEN CycleDone(frame[c])
                               ELSE frame[c]]
                /\ issued' = <<>>
                /\ UNCHANGED imap
    /\ UNCHANGED <<appVars, mailVars, fsVars>>

\* The "end" handler (gmailService.js 82-85), after imap.end() or when the
\* server closes the connection.
ConnEnd(k) ==
    /\ Alive
    /\ conn[k] \in {"ready", "ending"}
    /\ conn' = [conn EXCEPT ![k] = "closed"]
    /\ isConnected' = FALSE
    /\ issued' = <<>>
    /\ UNCHANGED <<appVars, imap, mailVars, fsVars, frame>>

\* searchUnreadFromSenders is called (gmailService.js 113-137, 261): without
\* senders it resolves to [] and checkEmails returns no email; else
\* imap.search is issued with the criteria.
SearchUnreadFromSenders(f) ==
    LET senders == Senders(env.senderEmail)
    IN  IF NoSenders(senders)
        THEN FetchAt([f EXCEPT !.uids = <<>>], 1)
        ELSE [f EXCEPT !.pc = "search", !.query = SearchCriteria(senders)]

\* ------------------------------------------------ the steps of a cycle
\* openInbox settles (gmailService.js 96-107, 260-261): the search is
\* issued, or the error reaches the catch of processEmails.
OpenDone(c) ==
    /\ Alive
    /\ frame[c].pc = "open"
    /\ \/ /\ SessionReady
          /\ SetFrame(c, SearchUnreadFromSenders(frame[c]))
          /\ issued' = <<>>
          /\ UNCHANGED sessVars
       \/ \E err \in StepErrs : CycleError(c, err, conn, isConnected)
    /\ UNCHANGED <<appVars, mailVars, fsVars>>

\* The search settles (gmailService.js 137-148, 261-266).
SearchDone(c) ==
    /\ Alive
    /\ frame[c].pc = "search"
    /\ \/ /\ SessionReady
          /\ \E order \in Orders(unseen) :
                SetFrame(c, FetchAt([frame[c] EXCEPT !.results = order,
                                                     !.uids = Results(order)],
                                    1))
          /\ issued' = <<>>
          /\ UNCHANGED sessVars
       \/ \E err \in StepErrs : CycleError(c, err, conn, isConnected)
    /\ UNCHANGED <<appVars, mailVars, fsVars>>

\* fetchEmail settles (gmailService.js 157-188, 266-272). The fetch marks
\* the message read (markSeen); a parsed message enters processEmail, a
\* fetch or parse error is caught and the loop goes on.
FetchDone(c) ==
    LET f == frame[c]
        u == f.uids[f.ui]
    IN  /\ Alive
        /\ f.pc = "fetch"
        /\ \/ /\ SessionReady
              /\ \E raw \in (IF mailbox[u].known THEN {mailbox[u].atts}
                             ELSE SeqsUpTo(Raw, MaxAtt)) :
                 \E t \in now..MaxClock :
                    LET f2 == ProcessFrom(
                                [f EXCEPT !.cur =
                                    [NoEmail EXCEPT !.uid = u,
                                                    !.text = mailbox[u].text,
                                                    !.html = mailbox[u].html]],
                                raw, 1, t)
                    IN  /\ SetFrame(c, f2)
                        /\ now' = IF f2.pc = "write" THEN t ELSE now
                        /\ mailbox' = [mailbox EXCEPT ![u] =
                                          [@ EXCEPT !.known = TRUE,
                                                    !.atts = raw]]
              /\ unseen' = unseen \ {u}
           \/ /\ \E marked \in BOOLEAN :
                    unseen' = IF marked THEN unseen \ {u} ELSE unseen
              /\ SetFrame(c, OnFetchFail(f))
              /\ UNCHANGED <<now, mailbox>>
        /\ issued' = <<>>
        /\ UNCHANGED <<appVars, sessVars, files, mtime, sweep>>

\* The fetch ends without a message (gmailService.js 157-188), the message
\* being gone from the mailbox: fetchEmail listens for "message" and "error"
\* only, so its promise stays pending and the cycle awaits it from then on.
FetchEnd(c) ==
    /\ Alive
    /\ frame[c].pc = "fetch"
    /\ SessionReady
    /\ SetFrame(c, [frame[c] EXCEPT !.pc = "pending"])
    /\ issued' = <<>>
    /\ UNCHANGED <<appVars, sessVars, mailVars, fsVars>>

\* fs.writeFile settles (gmailService.js 227-241): the reference is pushed,
\* or the error is caught and logged; the loop goes on either way. A failed
\* write may leave a partial file.
WriteDone(c) ==
    LET f == frame[c]
        raw == mailbox[f.uids[f.ui]].atts
    IN  /\ Alive
        /\ f.pc = "write"
        /\ \E t \in now..MaxClock :
             \/ LET f2 == ProcessFrom(
                            [f EXCEPT !.cur.atts = Append(@, Ref(raw[f.ai], f.path)),
                                      !.cur.writes = Append(@, Wrote(f, TRUE))],
                            raw, f.ai + 1, t)
                IN  /\ SetFrame(c, f2)
                    /\ now' = IF f2.pc = "write" THEN t ELSE now
                    /\ files' = files \cup {f.path}
                    /\ mtime' = [mtime EXCEPT ![f.path] = now]
             \/ LET f2 == OnWriteFail(f, raw, t)
                IN  /\ SetFrame(c, f2)
                    /\ now' = IF f2.pc = "write" THEN t ELSE now
                    /\ \E partial \in BOOLEAN :
                         /\ files' = IF partial THEN files \cup {f.path} ELSE files
                         /\ mtime' = IF partial
                                     THEN [mtime EXCEPT ![f.path] = now]
                                     ELSE mtime
        /\ issued' = <<>>
        /\ UNCHANGED <<appVars, sessVars, mailVars, sweep>>

\* The primary text send settles (whatsappService.js 101-122, 203).
TextDone(c) ==
    /\ Alive
    /\ frame[c].pc = "text"
    /\ \E ok \in BOOLEAN :
         SetFrame(c, IF ok THEN OnTextOk(Acked(frame[c], TRUE))
                     ELSE OnTextFail(Acked(frame[c], FALSE)))
    /\ issued' = <<>>
    /\ UNCHANGED <<appVars, sessVars, mailVars, fsVars>>

\* sendFile settles (whatsappService.js 132-161); it reads the stored file,
\* so it succeeds only when the file is there.
FileDone(c) ==
    /\ Alive
    /\ frame[c].pc = "file"
    /\ \E ok \in BOOLEAN :
         /\ ok => Att(frame[c]).path \in files
         /\ SetFrame(c, IF ok THEN OnFileOk(Acked(frame[c], TRUE))
                        ELSE OnFileFail(Acked(frame[c], FALSE)))
    /\ issued' = <<>>
    /\ UNCHANGED <<appVars, sessVars, mailVars, fsVars>>

\* The attachment-failure notice settles (whatsappService.js 223).
NoticeDone(c) ==
    /\ Alive
    /\ frame[c].pc = "notice"
    /\ \E ok \in BOOLEAN :
         SetFrame(c, IF ok THEN OnNoticeOk(Acked(frame[c], TRUE))
                     ELSE OnNoticeFail(Acked(frame[c], FALSE)))
    /\ issued' = <<>>
    /\ UNCHANGED <<appVars, sessVars, mailVars, fsVars>>

\* The skip summary settles (whatsappService.js 233).
SummaryDone(c) ==
    /\ Alive
    /\ frame[c].pc = "summary"
    /\ \E ok \in BOOLEAN :
         SetFrame(c, IF ok THEN OnSummaryOk(Acked(frame[c], TRUE))
                     ELSE OnSummaryFail(Acked(frame[c], FALSE)))
    /\ issued' = <<>>
    /\ UNCHANGED <<appVars, sessVars, mailVars, fsVars>>

\* The failure notification of processEmails settles (app.js 97-108).
NotifyDone(c) ==
    /\ Alive
    /\ frame[c].pc = "notify"
    /\ \E ok \in BOOLEAN :
         SetFrame(c, IF ok THEN OnNotify(Acked(frame[c], TRUE))
                     ELSE OnNotify(Acked(frame[c], FALSE)))
    /\ issued' = <<>>
    /\ UNCHANGED <<appVars, sessVars, mailVars, fsVars>>

\* delay(2000) after a file send, delay(1000) after the skip summary.
DelayDone(c) ==
    /\ Alive
    /\ frame[c].pc \in {"delay", "delayS"}
    /\ SetFrame(c, IF frame[c].pc = "delay" THEN OnDelay(frame[c])
                   ELSE OnDelayS(frame[c]))
    /\ issued' = <<>>
    /\ UNCHANGED <<appVars, sessVars, mailVars, fsVars>>

\* fs.unlink settles (app.js 79-88).
UnlinkDone(c) ==
    LET p == Att(frame[c]).path
    IN  /\ Alive
        /\ frame[c].pc = "unlink"
        /\ \/ /\ p \in files
              /\ files' = files \ {p}
              /\ mtime' = [mtime EXCEPT ![p] = 0]
           \/ UNCHANGED <<files, mtime>>
        /\ SetFrame(c, OnUnlink(frame[c]))
        /\ issued' = <<>>
        /\ UNCHANGED <<appVars, sessVars, mailVars, now, sweep>>

MessageStep(c) ==
    \/ FetchDone(c)
    \/ WriteDone(c)
    \/ TextDone(c)
    \/ FileDone(c)
    \/ NoticeDone(c)
    \/ SummaryDone(c)
    \/ DelayDone(c)
    \/ UnlinkDone(c)
    \/ NotifyDone(c)

FrameStep(c) ==
    \/ OpenDone(c)
    \/ SearchDone(c)
    \/ MessageStep(c)

\* The steps of a cycle whose messages hold no attachment.
TextStep(c) ==
    \/ OpenDone(c)
    \/ SearchDone(c)
    \/ FetchDone(c)
    \/ TextDone(c)
    \/ NotifyDone(c)

\* ------------------------------------------------------- the orchestrator
\* stop() (app.js 173-187): isRunning cleared, the poll timer cleared when
\* set, and MailSession.disconnect().
StopEffect ==
    /\ isRunning' = FALSE
    /\ checkInterval' = "null"
    /\ conn' = Disconnected(conn, isConnected)
    /\ issued' = <<"disconnect">>
    /\ UNCHANGED <<imap, isConnected>>

\* stop() called by the embedding program.
Stop ==
    /\ Alive
    /\ StopEffect
    /\ UNCHANGED <<sweepTimer, startPc, shutdownPc, sweepPc, exitCode, env,
                   mailVars, fsVars, frame>>

\* The catch of start() (app.js 163-167): stop(), then process.exit(1).
StartFail ==
    /\ StopEffect
    /\ startPc' = "failed"
    /\ exitCode' = "1"
    /\ UNCHANGED <<sweepTimer, shutdownPc, sweepPc, env, mailVars, fsVars, frame>>

StartGoes(pc) ==
    /\ startPc' = pc
    /\ issued' = <<>>
    /\ UNCHANGED <<isRunning, checkInterval, sweepTimer, shutdownPc, sweepPc,
                   exitCode, env, sessVars, mailVars, fsVars, frame>>

\* A validation the source does not have: nothing is required.
ConfigValidAlways == TRUE
\* validateConfig (config.js 99-123): every required field has a value.
ConfigValid ==
    env.config /\ Len(env.senderEmail) > 0 /\ Len(env.targetNumber) > 0
\* A probe test the source does not have: any reported state passes.
AuthorizedAlways(state) == TRUE
\* testConnection's test of the probed state (whatsappService.js 261).
Authorized(state) == state = "authorized"

\* start() is called (app.js 137-139): initialize validates the
\* configuration (app.js 33) and calls gmailService.initialize (app.js 37),
\* which issues mkdir (gmailService.js 43).
StartCall ==
    /\ Alive
    /\ startPc = "new"
    /\ IF ConfigValid THEN StartGoes("mkdir") ELSE StartFail

\* mkdir settles (gmailService.js 41-52); testConnection probes the
\* instance state (app.js 40, whatsappService.js 260).
MkdirDone ==
    /\ Alive
    /\ startPc = "mkdir"
    /\ IF env.dir THEN StartGoes("probe") ELSE StartFail

\* checkStatus settles (whatsappService.js 78-93, 260-274): an error makes
\* testConnection return false, a state makes it send its notification.
ProbeDone ==
    /\ Alive
    /\ startPc = "probe"
    /\ IF env.gateway = "error" THEN StartFail
       ELSE IF Authorized(env.gateway) THEN StartGoes("noteOk")
       ELSE StartGoes("noteBad")

\* The notification of testConnection settles (whatsappService.js 263-268).
\* Sent for an authorized instance, initialize returns: isRunning is set and
\* the first cycle begins (app.js 141-147). Otherwise testConnection returns
\* false, initialize throws (app.js 42-46) and start() fails.
NoteDone ==
    /\ Alive
    /\ startPc \in {"noteOk", "noteBad"}
    /\ \E ok \in BOOLEAN :
         IF startPc = "noteOk" /\ ok
         THEN /\ isRunning' = TRUE
              /\ startPc' = "firstCycle"
              /\ BeginCycle(1)
              /\ UNCHANGED <<checkInterval, sweepTimer, shutdownPc, sweepPc,
                             exitCode, env, isConnected, mailVars, fsVars>>
         ELSE StartFail

\* A start() the source does not have: the timers are armed without
\* awaiting the first cycle.
StartArmEarly ==
    /\ Alive
    /\ startPc = "firstCycle"
    /\ startPc' = "running"
    /\ checkInterval' = "armed"
    /\ sweepTimer' = "armed"
    /\ issued' = <<>>
    /\ UNCHANGED <<isRunning, shutdownPc, sweepPc, exitCode, env, sessVars,
                   mailVars, fsVars, frame>>

\* The first cycle has returned: both timers are armed (app.js 149-162).
StartArm ==
    /\ Alive
    /\ startPc = "firstCycle"
    /\ frame[1].pc = "done"
    /\ startPc' = "running"
    /\ checkInterval' = "armed"
    /\ sweepTimer' = "armed"
    /\ issued' = <<>>
    /\ UNCHANGED <<isRunning, shutdownPc, sweepPc, exitCode, env, sessVars,
                   mailVars, fsVars, frame>>

\* A timer callback the source does not have: it checks for a cycle in
\* flight.
StartsCycleWhenIdle == isRunning /\ \A c \in Frames : Free(c)

\* The poll timer's callback starts a cycle (app.js 150-154) on isRunning.
StartsCycle == isRunning

\* The poll timer fires (app.js 150-154).
PollTick ==
    /\ Alive
    /\ checkInterval = "armed"
    /\ IF StartsCycle
       THEN /\ \E c \in Frames : Free(c)
            /\ BeginCycle(Lowest({c \in Frames : Free(c)}))
            /\ UNCHANGED isConnected
       ELSE /\ issued' = <<>>
            /\ UNCHANGED <<sessVars, frame>>
    /\ UNCHANGED <<appVars, mailVars, fsVars>>

\* The daily timer fires (app.js 157-160): cleanupAttachments(7) starts and
\* issues readdir (gmailService.js 299).
SweepTick ==
    /\ Alive
    /\ sweepTimer = "armed"
    /\ sweepPc = "idle"
    /\ sweepPc' = "readdir"
    /\ issued' = <<>>
    /\ UNCHANGED <<isRunning, checkInterval, sweepTimer, startPc, shutdownPc,
                   exitCode, env, sessVars, mailVars, fsVars, frame>>

\* cutoffTime (gmailService.js 301), in milliseconds.
CutoffTime(days) == days * 24 * 60 * 60 * 1000

\* An age test the source does not have: a file of exactly the cutoff age
\* is old.
ExpiredFromCutoff(t, mtimeMs) == t - mtimeMs >= CutoffTime(daysToKeep)

\* The age test of the sweep (gmailService.js 308).
Expired(t, mtimeMs) == t - mtimeMs > CutoffTime(daysToKeep)

\* The locals of cleanupAttachments: now, files (list), the position of the
\* for loop in it (past the end once the loop has run out), and the
\* mtimeMs each stat returned.
IdleSweep == [now |-> 0, list |-> <<>>, i |-> 1, stats |-> <<>>]

\* What cleanupAttachments waits on with its loop at position j
\* (gmailService.js 303-305): the stat of that file, or nothing when the loop
\* is over and the call returns.
SweepAt(s, j) == IF j <= Len(s.list) THEN "stat" ELSE "idle"

\* readdir settles (gmailService.js 299-305): the clock is read, once, as t
\* and the loop starts; or the error is caught and logged (313-316).
SweepList(t) ==
    /\ Alive
    /\ sweepPc = "readdir"
    /\ t >= now
    /\ \/ \E order \in Orders(files) :
            LET s == [now |-> t, list |-> order, i |-> 1, stats |-> <<>>]
            IN  /\ sweep' = s
                /\ sweepPc' = SweepAt(s, 1)
                /\ now' = t
       \/ /\ sweep' = IdleSweep
          /\ sweepPc' = "idle"
          /\ now' = now
    /\ issued' = <<>>
    /\ UNCHANGED <<isRunning, checkInterval, sweepTimer, startPc, shutdownPc,
                   exitCode, env, sessVars, mailVars, files, mtime, frame>>

\* stat settles (gmailService.js 305-311): an old file's unlink is issued, a
\* younger file is passed over; or the error leaves the loop for the catch
\* (313-316) and the call returns.
SweepStat ==
    LET p == sweep.list[sweep.i]
    IN  /\ Alive
        /\ sweepPc = "stat"
        /\ \/ /\ p \in files
              /\ LET s == [sweep EXCEPT !.stats = Append(@, mtime[p])]
                 IN  IF Expired(sweep.now, mtime[p])
                     THEN /\ sweep' = s
                          /\ sweepPc' = "unlink"
                     ELSE /\ sweep' = [s EXCEPT !.i = sweep.i + 1]
                          /\ sweepPc' = SweepAt(s, sweep.i + 1)
           \/ /\ sweepPc' = "idle"
              /\ UNCHANGED sweep
        /\ issued' = <<>>
        /\ UNCHANGED <<isRunning, checkInterval, sweepTimer, startPc,
                       shutdownPc, exitCode, env, sessVars, mailVars, now,
                       files, mtime, frame>>

\* unlink settles (gmailService.js 309-311): the file is gone and the loop
\* goes on; or the error leaves the loop for the catch (313-316).
SweepUnlink ==
    LET p == sweep.list[sweep.i]
    IN  /\ Alive
        /\ sweepPc = "unlink"
        /\ \/ /\ p \in files
              /\ files' = files \ {p}
              /\ mtime' = [mtime EXCEPT ![p] = 0]
              /\ sweep' = [sweep EXCEPT !.i = sweep.i + 1]
              /\ sweepPc' = SweepAt(sweep, sweep.i + 1)
           \/ /\ sweepPc' = "idle"
              /\ UNCHANGED <<files, mtime, sweep>>
        /\ issued' = <<>>
        /\ UNCHANGED <<isRunning, checkInterval, sweepTimer, startPc,
                       shutdownPc, exitCode, env, sessVars, mailVars, now,
                       frame>>

\* SIGTERM / SIGINT (app.js 193-200): the shutdown notification is issued.
Signal ==
    /\ Alive
    /\ shutdownPc = "idle"
    /\ shutdownPc' = "notifying"
    /\ issued' = <<>>
    /\ UNCHANGED <<isRunning, checkInterval, sweepTimer, startPc, sweepPc,
                   exitCode, env, sessVars, mailVars, fsVars, frame>>

\* The notification settles (app.js 201-206): stop(), then process.exit(0).
ShutdownDone ==
    /\ Alive
    /\ shutdownPc = "notifying"
    /\ StopEffect
    /\ shutdownPc' = "exited"
    /\ exitCode' = "0"
    /\ UNCHANGED <<sweepTimer, startPc, sweepPc, env, mailVars, fsVars, frame>>

\* ---------------------------------------------------------- specifications
Envs == [config : BOOLEAN, dir : BOOLEAN,
         gateway : {"authorized", "notAuthorized", "error"},
         senderEmail : {DefaultSender}, targetNumber : {DefaultTarget}]
GoodEnv == [config |-> TRUE, dir |-> TRUE, gateway |-> "authorized",
            senderEmail |-> DefaultSender, targetNumber |-> DefaultTarget]

\* What one message of the lifecycle's mailbox holds: no attachment.
LifeContents == {Known(<<>>)}

\* What one message of the single cycle's mailbox holds: nothing, a payload
\* under the ceiling, a payload over it.
CycleContents ==
    {Known(<<>>), Known(<<[name |-> "a", size |-> 2 * BytesPerMB]>>),
     Known(<<[name |-> "a", size |-> maxAttachmentSizeMB * BytesPerMB + 1]>>)}

InitBase ==
    /\ shutdownPc = "idle"
    /\ sweepPc = "idle"
    /\ exitCode = "none"
    /\ now = 0
    /\ files = {}
    /\ mtime = [p \in Paths |-> 0]
    /\ sweep = IdleSweep
    /\ issued = <<>>

\* The process after construction (app.js 18-23, gmailService.js 27-34).
Init ==
    /\ InitBase
    /\ isRunning = FALSE
    /\ checkInterval = "null"
    /\ sweepTimer = "none"
    /\ startPc = "new"
    /\ imap = 0
    /\ isConnected = FALSE
    /\ conn = [k \in Conns |-> "none"]
    /\ env \in Envs
    /\ frame = [c \in Frames |-> IdleFrame]
    /\ mailbox \in [1..LifeUids -> LifeContents]
    /\ unseen = 1..LifeUids

Next ==
    \/ StartCall
    \/ MkdirDone
    \/ ProbeDone
    \/ NoteDone
    \/ StartArm
    \/ PollTick
    \/ SweepTick
    \/ SweepList(now)
    \/ Stop
    \/ Signal
    \/ ShutdownDone
    \/ \E k \in Conns : ConnReady(k) \/ ConnError(k) \/ ConnEnd(k)
    \/ \E c \in Frames : TextStep(c)

Spec == Init /\ [][Next]_vars

\* One cycle on its own: a running forwarder, its first cycle over and the
\* session it opened ready or lost, whose poll timer fires once, on a mailbox
\* of MaxUid messages with any attachments.
InitCycle ==
    /\ InitBase
    /\ isRunning = TRUE
    /\ checkInterval = "armed"
    /\ sweepTimer = "armed"
    /\ startPc = "running"
    /\ imap = 1
    /\ \E up \in BOOLEAN :
         /\ isConnected = up
         /\ conn = [k \in Conns |-> IF k # 1 THEN "none"
                                    ELSE IF up THEN "ready" ELSE "closed"]
    /\ env = GoodEnv
    /\ frame = [c \in Frames |-> IdleFrame]
    /\ mailbox \in [1..MaxUid -> CycleContents]
    /\ unseen \in SUBSET (1..MaxUid)

OneTick == frame[1].pc = "idle" /\ PollTick

CycleNext ==
    \/ OneTick
    \/ \E k \in Conns : ConnReady(k) \/ ConnError(k) \/ ConnEnd(k)
    \/ \E c \in Frames : FrameStep(c)

SpecCycle == InitCycle /\ [][CycleNext]_vars

\* One message on its own: the cycle has searched and now fetches its only
\* identifier; the message holds any MaxAtt payloads.
InitMessage ==
    /\ InitBase
    /\ isRunning = TRUE
    /\ checkInterval = "armed"
    /\ sweepTimer = "armed"
    /\ startPc = "running"
    /\ imap = 1
    /\ isConnected = TRUE
    /\ conn = [k \in Conns |-> IF k = 1 THEN "ready" ELSE "none"]
    /\ env = GoodEnv
    /\ mailbox = [u \in {1} |-> Unknown]
    /\ unseen = {1}
    /\ \E f \in {FetchAt([IdleFrame EXCEPT !.results = <<1>>,
                                            !.uids = <<1>>], 1)} :
         frame = [c \in Frames |-> IF c = 1 THEN f ELSE IdleFrame]

MessageNext == \E c \in Frames : MessageStep(c)

SpecMessage == InitMessage /\ [][MessageNext]_vars

\* One sweep on its own: a running forwarder between cycles, the clock at its
\* last reading, up to MaxStored files in the attachments directory, each
\* written at or after the clock reading in its name; the daily timer fires
\* when the oldest of them has reached the cutoff age or later.
InitSweep ==
    /\ shutdownPc = "idle"
    /\ sweepPc = "idle"
    /\ exitCode = "none"
    /\ issued = <<>>
    /\ isRunning = TRUE
    /\ checkInterval = "armed"
    /\ sweepTimer = "armed"
    /\ startPc = "running"
    /\ imap = 1
    /\ isConnected = TRUE
    /\ conn = [k \in Conns |-> IF k = 1 THEN "ready" ELSE "none"]
    /\ env = GoodEnv
    /\ frame = [c \in Frames |-> IdleFrame]
    /\ mailbox \in [1..LifeUids -> LifeContents]
    /\ unseen = {}
    /\ now = MaxClock
    /\ files \in {F \in SUBSET Paths : Cardinality(F) <= MaxStored}
    /\ mtime \in {m \in [Paths -> Stamps] :
                     \A p \in Paths : IF p \in files THEN m[p] >= p[1]
                                                   ELSE m[p] = 0}
    /\ sweep = IdleSweep

SweepNext ==
    \/ SweepTick
    \/ \E d \in 0..(MaxClock + 1) : SweepList(CutoffTime(daysToKeep) + d)
    \/ SweepStat
    \/ SweepUnlink

SpecSweep == InitSweep /\ [][SweepNext]_vars

\* The target numbers of the tests (whatsappService.test.js 37-49).
LocalNumber == <<"0", "8", "1", "2", "3", "4", "5", "6", "7", "8", "9", "0">>
CodedNumber ==
    <<"6", "2", "8", "1", "2", "3", "4", "5", "6", "7", "8", "9", "0">>
PunctuatedNumber ==
    <<"+", "6", "2", " ", "8", "1", "2", "-", "3", "4", "5", "6", "-",
      "7", "8", "9", "0">>

\* The characters a configured target number is made of here, and the
\* configured numbers that pass validateConfig (config.js 107, 112): those of
\* the tests and every string of 1 to MaxNumberLen characters.
NumberChars == {"0", "2", "6", "8", "+", "-", " ", "@", "c"}
TargetNumbers ==
    {LocalNumber, CodedNumber, PunctuatedNumber}
        \cup UNION {[1..n -> NumberChars] : n \in 1..MaxNumberLen}

\* One forward under any target number: a running forwarder whose cycle has
\* searched and now fetches its only message, which has no attachment.
InitNumber ==
    /\ InitBase
    /\ isRunning = TRUE
    /\ checkInterval = "armed"
    /\ sweepTimer = "armed"
    /\ startPc = "running"
    /\ imap = 1
    /\ isConnected = TRUE
    /\ conn = [k \in Conns |-> IF k = 1 THEN "ready" ELSE "none"]
    /\ \E n \in TargetNumbers : env = [GoodEnv EXCEPT !.targetNumber = n]
    /\ mailbox \in [1..LifeUids -> LifeContents]
    /\ unseen = 1..LifeUids
    /\ frame = [c \in Frames |->
                  IF c = 1
                  THEN FetchAt([IdleFrame EXCEPT !.results = Ascending(unseen),
                                                 !.uids = Ascending(unseen)],
                               1)
                  ELSE IdleFrame]

NumberNext == \E c \in Frames : FetchDone(c) \/ TextDone(c) \/ NotifyDone(c)

SpecNumber == InitNumber /\ [][NumberNext]_vars

\* The bodies a message may have: a plain text that is absent, a character,
\* white space, an image placeholder, or text with a placeholder or a tag in
\* it; any HTML of up to MaxHtmlLen characters.
Texts ==
    {<<>>, <<"x">>, <<" ">>, <<"[image: f]">>, <<"x", "[image: f]">>,
     <<"<", "p", ">">>}
HtmlChars == {"<", ">", "/", "p", "x", " ", "\n"}
Htmls == UNION {[1..n -> HtmlChars] : n \in 0..MaxHtmlLen}

\* One forward of any body: a running forwarder whose cycle has searched and
\* now fetches its only message, which has no attachment.
InitBody ==
    /\ InitBase
    /\ isRunning = TRUE
    /\ checkInterval = "armed"
    /\ sweepTimer = "armed"
    /\ startPc = "running"
    /\ imap = 1
    /\ isConnected = TRUE
    /\ conn = [k \in Conns |-> IF k = 1 THEN "ready" ELSE "none"]
    /\ env = GoodEnv
    /\ \E t \in Texts : \E h \in Htmls \cup {<<"[image: f]">>} :
          mailbox = [u \in 1..LifeUids |->
                        [Known(<<>>) EXCEPT !.text = t, !.html = h]]
    /\ unseen = 1..LifeUids
    /\ frame = [c \in Frames |->
                  IF c = 1
                  THEN FetchAt([IdleFrame EXCEPT !.results = Ascending(unseen),
                                                 !.uids = Ascending(unseen)],
                               1)
                  ELSE IdleFrame]

BodyNext == \E c \in Frames : FetchDone(c) \/ TextDone(c) \/ NotifyDone(c)

SpecBody == InitBody /\ [][BodyNext]_vars

\* One message on its own, to the end of its cycle: every request ends, with
\* data, with an error or with an end that delivers no message, every delay
\* timer fires, and stop() may be called meanwhile.
FetchNext ==
    \/ \E c \in Frames : MessageStep(c) \/ FetchEnd(c)
    \/ \E k \in Conns : ConnEnd(k)
    \/ Stop

FetchFair == \A c \in Frames : WF_vars(MessageStep(c) \/ FetchEnd(c))

SpecFetch == InitMessage /\ [][FetchNext]_vars /\ FetchFair

\* The polling of an empty mailbox, for ever: a running forwarder, its first
\* cycle over and the session it opened ready or lost; ticks may overlap.
\* Every connect ends in "ready" or "error", every imap.end() in "end", every
\* request in its callback, and the poll timer keeps firing.
InitPolling ==
    /\ InitBase
    /\ isRunning = TRUE
    /\ checkInterval = "armed"
    /\ sweepTimer = "armed"
    /\ startPc = "running"
    /\ imap = 1
    /\ \E up \in BOOLEAN :
         /\ isConnected = up
         /\ conn = [k \in Conns |-> IF k # 1 THEN "none"
                                    ELSE IF up THEN "ready" ELSE "closed"]
    /\ env = GoodEnv
    /\ frame = [c \in Frames |-> IdleFrame]
    /\ mailbox \in [1..LifeUids -> LifeContents]
    /\ unseen = {}

PollingNext ==
    \/ PollTick
    \/ \E k \in Conns : ConnReady(k) \/ ConnError(k) \/ ConnEnd(k)
    \/ \E c \in Frames : OpenDone(c) \/ SearchDone(c)

PollingFair ==
    /\ WF_vars(PollTick)
    /\ \A k \in Conns :
          /\ WF_vars((ConnReady(k) \/ ConnError(k)) /\ conn[k] = "connecting")
          /\ WF_vars(ConnEnd(k) /\ conn[k] = "ending")
    /\ \A c \in Frames : WF_vars(OpenDone(c)) /\ WF_vars(SearchDone(c))

SpecPolling == InitPolling /\ [][PollingNext]_vars /\ PollingFair

\* The configured sender lists of up to MaxSenderLen characters that pass
\* validateConfig: the empty string does not (config.js 104, 112).
SenderLists ==
    UNION {[1..n -> Chars] : n \in 1..MaxSenderLen}

\* One cycle under any configured sender list: a running forwarder whose
\* poll timer fires once, on a mailbox of LifeUids messages.
InitSearch ==
    /\ InitBase
    /\ isRunning = TRUE
    /\ checkInterval = "armed"
    /\ sweepTimer = "armed"
    /\ startPc = "running"
    /\ imap = 1
    /\ isConnected = TRUE
    /\ conn = [k \in Conns |-> IF k = 1 THEN "ready" ELSE "none"]
    /\ \E s \in SenderLists : env = [GoodEnv EXCEPT !.senderEmail = s]
    /\ frame = [c \in Frames |-> IdleFrame]
    /\ mailbox \in [1..LifeUids -> LifeContents]
    /\ unseen \in SUBSET (1..LifeUids)

SearchNext ==
    \/ OneTick
    \/ \E k \in Conns : ConnReady(k) \/ ConnError(k) \/ ConnEnd(k)
    \/ \E c \in Frames : TextStep(c)

SpecSearch == InitSearch /\ [][SearchNext]_vars

\* ------------------------------------------------------------ properties
\* The forward of the email at hand has ended: forwardEmail has resolved or
\* rejected, and no later forward has begun.
Ended(f) == f.ei >= 1 /\ Len(f.outcome) = f.ei
Rejected(f) == Ended(f) /\ f.outcome[f.ei] = "rejected"
TextFailed(f) == Len(f.acks) >= 1 /\ ~f.acks[1]
TextAcked(f) == Len(f.acks) >= 1 /\ f.acks[1]
\* The sends of one kind issued by the forward at hand, in order.
SendsOf(f, kind) == SelectSeq(f.sends, LAMBDA s : s.kind = kind)
\* S / 1048576 <= C, on byte counts.
WithinCeiling(size) == size <= maxAttachmentSizeMB * BytesPerMB

\* C1: when the primary text send of a forward fails, forwardEmail rejects
\* and that forward issues no file send, no attachment-failure notice and no
\* skip summary, whatever attachments and skipped attachments the message has.
C1_TextFailureIsFatal ==
    \A c \in Frames :
        LET f == frame[c]
        IN  TextFailed(f) =>
                /\ Rejected(f)
                /\ SendsOf(f, "file") = <<>>
                /\ SendsOf(f, "notice") = <<>>
                /\ SendsOf(f, "summary") = <<>>

\* A text send has failed for a message with a stored and a skipped attachment.
C1_Witness ==
    \E c \in Frames :
        /\ TextFailed(frame[c])
        /\ Len(Email(frame[c]).atts) >= 1
        /\ Len(Email(frame[c]).skipped) >= 1

\* C2: in one forward the text send comes first and is acknowledged before
\* any file send is issued; the file sends are those of attachments 1, 2, ...
\* in that order, each issued only when every earlier send has settled.
C2_TextThenFilesInOrder ==
    \A c \in Frames :
        LET f == frame[c]
            sent == SendsOf(f, "file")
        IN  /\ \A k \in 1..Len(sent) : sent[k].att = k
            /\ \A i \in 1..Len(f.sends) :
                  f.sends[i].kind = "file" =>
                      /\ i > 1
                      /\ f.sends[1].kind = "text"
                      /\ TextAcked(f)
                      /\ Len(f.acks) >= i - 1

\* Two file sends have been issued by one forward.
C2_Witness == \E c \in Frames : Len(SendsOf(frame[c], "file")) = 2

\* C3: when the text send succeeded, a failed file send never cuts the
\* forward short: once the forward has ended, every attachment of the message
\* has had its file send issued, and it has not rejected after a failed file
\* send unless the skip summary is what failed.
C3_AttachmentFailureIsolated ==
    \A c \in Frames :
        LET f == frame[c]
        IN  (Ended(f) /\ TextAcked(f)) =>
                /\ \A j \in 1..Len(Email(f).atts) :
                      \E i \in 1..Len(f.sends) : f.sends[i] = Send("file", j)
                /\ Rejected(f) => SendsOf(f, "summary") # <<>>

\* C4: a cycle that got past its search and has returned has fetched every
\* identifier the search returned, in order, and handed every processed
\* message to forwardEmail, whatever fetches and forwards failed on the way;
\* and no forward begins before every identifier has been fetched.
C4_CycleNeverAborted ==
    \A c \in Frames :
        LET f == frame[c]
        IN  /\ (f.pc = "done" /\ f.err = NoErr) =>
                  /\ f.fetched = f.uids
                  /\ Len(f.outcome) = Len(f.emails)
            /\ f.ei >= 1 => f.fetched = f.uids

\* A cycle over two identifiers has returned: the fetch of the first failed,
\* the second was fetched, processed and its forward rejected.
C4_Witness ==
    \E c \in Frames :
        LET f == frame[c]
        IN  /\ f.pc = "done"
            /\ f.err = NoErr
            /\ f.uids = <<1, 2>>
            /\ Len(f.emails) = 1
            /\ f.emails[1].uid = 2
            /\ f.outcome = <<"rejected">>

\* C5: the cycle issues the deletion of a message's files only after that
\* message's forward succeeded, has issued all of them before the next
\* forward begins, and the stored files of a message whose forward failed
\* remain in the attachments directory.
C5_CleanupGatedOnSuccess ==
    \A c \in Frames :
        LET f == frame[c]
        IN  /\ \A k \in 1..Len(f.unlinked) :
                  /\ f.unlinked[k][1] <= Len(f.outcome)
                  /\ f.outcome[f.unlinked[k][1]] = "ok"
            /\ \A i \in 1..Len(f.outcome) :
                  /\ (f.outcome[i] = "ok" /\ (f.ei > i \/ f.pc = "done")) =>
                        \A j \in 1..Len(f.emails[i].atts) :
                            \E k \in 1..Len(f.unlinked) :
                                f.unlinked[k] = <<i, f.emails[i].atts[j].path>>
                  /\ f.outcome[i] = "rejected" =>
                        \A j \in 1..Len(f.emails[i].atts) :
                            f.emails[i].atts[j].path \in files

\* The raw payloads (by position) of a processed message that pass the gate.
Accepted(e) ==
    {j \in 1..Len(mailbox[e.uid].atts) :
        WithinCeiling(mailbox[e.uid].atts[j].size)}

\* The skipped list of a processed message is exactly its payloads over the
\* ceiling, in order, each with the size-limit reason.
SkippedIsOverCeiling(e) ==
    LET over == SelectSeq(mailbox[e.uid].atts,
                          LAMBDA r : ~WithinCeiling(r.size))
    IN  e.skipped = [k \in 1..Len(over) |->
                        [name |-> over[k].name, size |-> over[k].size,
                         reason |-> "Exceeds size limit"]]

\* C6 as stated: a payload is listed in attachments iff S / 1048576 <= C, and
\* in skippedAttachments otherwise.
C6_ListedIffWithinCeiling ==
    \A c \in Frames : \A i \in 1..Len(frame[c].emails) :
        LET e == frame[c].emails[i]
        IN  /\ Len(e.atts) = Cardinality(Accepted(e))
            /\ SkippedIsOverCeiling(e)

\* C6: a write is issued for a payload iff S / 1048576 <= C, and the payload
\* is listed in attachments iff that write succeeded; the payloads with
\* S / 1048576 > C, and only they, are listed in skippedAttachments with the
\* size-limit reason, and no write is issued for them.
C6_SizeGate ==
    \A c \in Frames : \A i \in 1..Len(frame[c].emails) :
        LET e == frame[c].emails[i]
            raw == mailbox[e.uid].atts
            oks == SelectSeq(e.writes, LAMBDA w : w.ok)
        IN  /\ {e.writes[k].att : k \in 1..Len(e.writes)} = Accepted(e)
            /\ Len(e.writes) = Cardinality(Accepted(e))
            /\ Len(e.atts) = Len(oks)
            /\ \A k \in 1..Len(oks) :
                  e.atts[k] = [name |-> raw[oks[k].att].name,
                               path |-> oks[k].path,
                               size |-> raw[oks[k].att].size]
            /\ SkippedIsOverCeiling(e)

\* A processed message with a payload of exactly the ceiling, stored and
\* listed, and a payload one byte over it, skipped.
C6_Witness ==
    \E c \in Frames : \E i \in 1..Len(frame[c].emails) :
        LET e == frame[c].emails[i]
        IN  /\ Len(e.atts) = 1
            /\ e.atts[1].size = maxAttachmentSizeMB * BytesPerMB
            /\ Len(e.skipped) = 1
            /\ e.skipped[1].size = maxAttachmentSizeMB * BytesPerMB + 1

\* C7: when the search of a cycle raises a transport-class error, the cycle
\* has fetched and forwarded nothing and the step that handles the error
\* issues disconnect and then connect.
C7_TransportErrorReconnects ==
    [][\A c \in Frames :
          (frame[c].pc = "search" /\ frame'[c].err.cls = "transport") =>
              /\ frame'[c].fetched = <<>>
              /\ frame'[c].outcome = <<>>
              /\ issued' = <<"disconnect", "connect">>]_vars

\* C8: a firing of the poll timer with isRunning set puts one more cycle in
\* flight, whether or not a cycle is in flight already.
C8_TickIgnoresInFlight ==
    [][(PollTick /\ isRunning) =>
          Cardinality({c \in Frames : InFlight(c)}') =
              Cardinality({c \in Frames : InFlight(c)}) + 1]_vars

\* Two cycles of the running forwarder are in flight at once.
C8_Witness == startPc = "running" /\ \A c \in Frames : InFlight(c)

\* C9: stop() on a running forwarder (the process living on) cancels the
\* poll timer and the sweep timer and calls disconnect, without touching a
\* cycle in flight; and once isRunning is cleared no timer starts a cycle.
C9_StopCancelsBothTimers ==
    [][/\ (startPc = "running" /\ isRunning /\ ~isRunning'
            /\ exitCode' = "none") =>
              /\ checkInterval' = "null"
              /\ sweepTimer' = "none"
              /\ issued' = <<"disconnect">>
              /\ frame' = frame
       /\ (startPc = "running" /\ ~isRunning) =>
              \A c \in Frames : Free(c) => Free(c)']_vars

\* C10: when a startup step fails (configuration, directory, probe or its
\* notification), isRunning is never set, no cycle runs, no timer is armed,
\* and the failure handler of start() exits with status 1.
C10_FailedStartupNeverRuns ==
    (env # GoodEnv \/ startPc = "failed") =>
        /\ ~isRunning
        /\ startPc \notin {"firstCycle", "running"}
        /\ checkInterval = "null"
        /\ sweepTimer = "none"
        /\ \A c \in Frames : frame[c].pc = "idle"
        /\ startPc = "failed" => exitCode = "1"

\* start() has failed on an instance the probe reports as not authorized.
C10_Witness ==
    /\ startPc = "failed"
    /\ exitCode = "1"
    /\ env = [GoodEnv EXCEPT !.gateway = "notAuthorized"]

\* C11: startup issues mkdir only after the configuration validated, the
\* gateway probe only after mkdir succeeded, and the probe's notification
\* only after the probe: a step that fails issues nothing after it. (startPc
\* "mkdir", "probe", "noteOk"/"noteBad" name the call start() is waiting on.)
C11_StartupOrder ==
    [][/\ (startPc' = "mkdir" /\ startPc # "mkdir") =>
              (startPc = "new" /\ env.config)
       /\ (startPc' = "probe" /\ startPc # "probe") =>
              (startPc = "mkdir" /\ env.config /\ env.dir)
       /\ (startPc' \in {"noteOk", "noteBad"} /\ startPc' # startPc) =>
              (startPc = "probe" /\ env.config /\ env.dir)
       /\ ~env.config => startPc' \in {"new", "failed"}
       /\ ~env.dir => startPc' \in {"new", "mkdir", "failed"}]_vars

\* start() has failed at the directory step of a valid configuration.
C11_Witness == startPc = "failed" /\ env.config /\ ~env.dir

\* C12: the step that ends a successful initialization starts the first
\* cycle; the two timers are armed together, in the step that follows the
\* return of that cycle, and not while it runs; every other cycle is started
\* by a firing of the poll timer and every sweep by a firing of the sweep
\* timer.
C12_FirstCycleThenTimers ==
    [][/\ (~isRunning /\ isRunning') =>
              /\ startPc = "noteOk"
              /\ startPc' = "firstCycle"
              /\ InFlight(1)'
       /\ startPc = "firstCycle" =>
              (checkInterval = "null" /\ sweepTimer = "none")
       /\ ((checkInterval' = "armed" /\ checkInterval = "null")
           \/ (sweepTimer' = "armed" /\ sweepTimer = "none")) =>
              /\ startPc = "firstCycle"
              /\ frame[1].pc = "done"
              /\ checkInterval' = "armed"
              /\ sweepTimer' = "armed"
       /\ (\E c \in Frames : Free(c) /\ InFlight(c)') =>
              \/ (startPc = "noteOk" /\ startPc' = "firstCycle")
              \/ (PollTick /\ checkInterval = "armed")
       /\ (sweepPc = "idle" /\ sweepPc' # "idle") =>
              (SweepTick /\ sweepTimer = "armed")]_vars

\* The forwarder is running with a timer-started cycle and a sweep under way.
C12_Witness ==
    /\ startPc = "running"
    /\ checkInterval = "armed"
    /\ InFlight(1)
    /\ sweepPc # "idle"

\* C13: a step in which the fetch or the parse of an identifier fails, or in
\* which a forward rejects, issues a failure notice to the destination; and
\* when that notice has settled, sent or not, the cycle goes on to the next
\* message without an error of its own.
C13_FailureNoticeSent ==
    [][\A c \in Frames :
          /\ (/\ frame[c].pc = "fetch"
              /\ frame'[c] # frame[c]
              /\ frame'[c].pc # "write"
              /\ frame'[c].emails = frame[c].emails) =>
                 \E i \in 1..Len(frame'[c].sends) :
                     frame'[c].sends[i].kind = "alert"
          /\ (/\ Len(frame'[c].outcome) = Len(frame[c].outcome) + 1
              /\ frame'[c].outcome[Len(frame'[c].outcome)] = "rejected") =>
                 frame'[c].sends[Len(frame'[c].sends)].kind = "alert"
          /\ (frame[c].pc = "notify" /\ frame'[c] # frame[c]) =>
                 /\ frame'[c].pc \in {"text", "done"}
                 /\ frame'[c].err = NoErr]_vars

\* C14: once a connect has failed with an authentication error, no later
\* step of the process calls connect again.
C14_AuthFailureIsFatal ==
    [][(\E c \in Frames : frame[c].err.cls = "auth") =>
           \A i \in 1..Len(issued') : issued'[i] # "connect"]_vars

\* C15: a fetched message is marked read from its fetch on (no processed
\* message is unread, and nothing becomes unread again); a search returns
\* unread messages only; and no forward begins for a message of which a
\* forward has already failed.
C15_FailedMessageNotRetried ==
    [][\A c \in Frames :
          /\ \A i \in 1..Len(frame'[c].emails) :
                 frame'[c].emails[i].uid \notin unseen'
          /\ unseen' \subseteq unseen
          /\ (/\ frame[c].pc = "search"
              /\ frame'[c].pc # "search"
              /\ frame'[c].err = NoErr) =>
                 \A i \in 1..Len(frame'[c].uids) : frame'[c].uids[i] \in unseen
          /\ (frame'[c].ei # frame[c].ei /\ frame'[c].ei >= 1) =>
                 \A d \in Frames : \A i \in 1..Len(frame[d].outcome) :
                     frame[d].outcome[i] = "rejected" =>
                         frame[d].emails[i].uid
                             # frame'[c].emails[frame'[c].ei].uid]_vars

\* C16: a forward in which every gateway call succeeded has issued exactly
\* one text send, one file send per persisted attachment, in order, and one
\* skip summary exactly when the message has skipped attachments: 1 + n +
\* (1 if k > 0) sends in all, and a single text send for a message without
\* attachments.
C16_SendCount ==
    \A c \in Frames :
        LET f == frame[c]
        IN  (Ended(f) /\ \A i \in 1..Len(f.acks) : f.acks[i]) =>
                LET n == Len(Email(f).atts)
                    k == Len(Email(f).skipped)
                    s == IF k > 0 THEN 1 ELSE 0
                IN  /\ f.outcome[f.ei] = "ok"
                    /\ Len(f.sends) = 1 + n + s
                    /\ SendsOf(f, "text") = <<Send("text", 0)>>
                    /\ SendsOf(f, "file") = [j \in 1..n |-> Send("file", j)]
                    /\ Len(SendsOf(f, "summary")) = s
                    /\ f.sends[1].kind = "text"
                    /\ s = 1 => f.sends[Len(f.sends)].kind = "summary"

C16_Witness ==
    \E c \in Frames :
        LET f == frame[c]
        IN  /\ Ended(f)
            /\ \A i \in 1..Len(f.acks) : f.acks[i]
            /\ Len(Email(f).atts) = 1
            /\ Len(Email(f).skipped) = 1
            /\ Len(f.sends) = 3

\* The sender list the configuration denotes: the pieces between consecutive
\* separators (or the ends of the string), each cut down to its span from
\* the first to the last character that is not white space, those without
\* such a character left out, in input order.
ConfiguredSenders ==
    LET str == env.senderEmail
        cuts == Ascending({0, Len(str) + 1}
                          \cup {i \in 1..Len(str) : str[i] = ","})
        piece(j) ==
            LET inner == {i \in (cuts[j] + 1)..(cuts[j + 1] - 1) : str[i] # " "}
            IN  IF inner = {} THEN <<>>
                ELSE SubSeq(str,
                            CHOOSE a \in inner : \A i \in inner : a <= i,
                            CHOOSE b \in inner : \A i \in inner : b >= i)
    IN  SelectSeq([j \in 1..(Len(cuts) - 1) |-> piece(j)],
                  LAMBDA s : s # <<>>)

\* C17: the criteria of every search issued are UNSEEN followed by the one
\* FROM item when the configured list has one sender, and UNSEEN, OR and the
\* FROM items of all senders in input order when it has two or more.
C17_SearchCriteria ==
    \A c \in Frames :
        LET f == frame[c]
            list == ConfiguredSenders
        IN  /\ f.pc = "search" => f.query # <<>>
            /\ f.query # <<>> =>
                  /\ f.query[1] = Keyword("UNSEEN")
                  /\ Len(list) = 1 =>
                        f.query = <<Keyword("UNSEEN"), From(list[1])>>
                  /\ Len(list) >= 2 =>
                        /\ Len(f.query) = 2 + Len(list)
                        /\ f.query[2] = Keyword("OR")
                        /\ \A i \in 1..Len(list) :
                               f.query[2 + i] = From(list[i])

\* A search is in flight for three senders, two of them distinct.
C17_Witness ==
    \E c \in Frames :
        /\ frame[c].pc = "search"
        /\ Len(frame[c].query) = 5
        /\ frame[c].query[3] # frame[c].query[4]

\* C18: under a sender list that is empty after splitting, trimming and
\* dropping the empty entries, no search is ever issued, nothing is fetched
\* or forwarded, and the step in which the inbox opens ends the cycle without
\* an error.
C18_NoSendersNoSearch ==
    [][ConfiguredSenders = <<>> =>
          \A c \in Frames :
              /\ frame'[c].pc \notin {"search", "fetch", "write", "text"}
              /\ frame'[c].query = <<>>
              /\ frame'[c].uids = <<>>
              /\ frame'[c].fetched = <<>>
              /\ frame'[c].emails = <<>>
              /\ frame'[c].sends = <<>>
              /\ (frame[c].pc = "open" /\ frame'[c].pc # "open"
                  /\ SessionReady /\ frame'[c].err = NoErr) =>
                     frame'[c].pc = "done"
              /\ (frame[c].pc = "open" /\ frame'[c].pc = "done"
                  /\ frame'[c].err = NoErr) =>
                     /\ issued' = <<>>
                     /\ UNCHANGED <<sessVars, mailVars>>]_vars

\* The cycle is over, normally, under a sender list of separators and white
\* space, with an unread message in the mailbox.
C18_Witness ==
    /\ ConfiguredSenders = <<>>
    /\ Len(env.senderEmail) >= 2
    /\ frame[1].pc = "done"
    /\ frame[1].err = NoErr
    /\ unseen # {}

C20_SweepContinuesPastFailure ==
    [][(sweepPc \in {"stat", "unlink"} /\ sweepPc' = "idle") =>
          \A j \in 1..Len(sweep.list) :
              (/\ sweep.list[j] \in files'
               /\ Expired(sweep.now, mtime'[sweep.list[j]])) =>
                  (j = sweep.i /\ sweep'.i = sweep.i)]_vars

\* C21: the chat id of every gateway call is the configured number with all
\* characters but the digits removed, a leading "0" of what is left replaced
\* by "62", and "@c.us" appended; the three numbers of the tests all give
\* "6281234567890@c.us".
C21_ChatIdFollowsRule ==
    \A c \in Frames : \A i \in 1..Len(frame[c].sends) :
        LET chatId == frame[c].sends[i].chatId
            number == env.targetNumber
            digits == SelectSeq(number, LAMBDA ch :
                          ch \in {"0", "1", "2", "3", "4", "5", "6", "7",
                                  "8", "9"})
            suffix == <<"@", "c", ".", "u", "s">>
        IN  /\ (digits = <<>> \/ digits[1] # "0") => chatId = digits \o suffix
            /\ (digits # <<>> /\ digits[1] = "0") =>
                   chatId = <<"6", "2">> \o Tail(digits) \o suffix
            /\ number \in {LocalNumber, CodedNumber, PunctuatedNumber} =>
                   chatId = CodedNumber \o suffix

\* A text has been sent under the punctuated number of the tests.
C21_Witness ==
    /\ env.targetNumber = PunctuatedNumber
    /\ frame[1].pc = "done"
    /\ Len(frame[1].sends) >= 1

\* C22: normalising the chat id of a gateway call, itself the normalised
\* configured number, gives that chat id again, for every configured number
\* that holds a digit.
C22_NormalizeIdempotent ==
    \A c \in Frames : \A i \in 1..Len(frame[c].sends) :
        (\E j \in 1..Len(env.targetNumber) : env.targetNumber[j] \in Digits) =>
            /\ frame[c].sends[i].chatId = FormatPhoneNumber(env.targetNumber)
            /\ FormatPhoneNumber(frame[c].sends[i].chatId)
                   = frame[c].sends[i].chatId

\* A text has been sent under a number with a leading "0" and a character
\* that is not a digit.
C22_Witness ==
    /\ Len(frame[1].sends) >= 1
    /\ Cleaned(env.targetNumber) # env.targetNumber
    /\ Len(Cleaned(env.targetNumber)) >= 2
    /\ Cleaned(env.targetNumber)[1] = "0"

\* C23: any two writes of attachments made by the process, in the same
\* message, in different messages or in different cycles, go to distinct
\* storage paths.
C23_StoragePathsDistinct ==
    \A c, d \in Frames :
        \A i \in 1..Len(frame[c].emails) : \A j \in 1..Len(frame[d].emails) :
            LET v == frame[c].emails[i].writes
                w == frame[d].emails[j].writes
            IN  \A a \in 1..Len(v) : \A b \in 1..Len(w) :
                    <<c, i, a>> # <<d, j, b>> => v[a].path # w[b].path

\* C24: the identifiers a cycle works on are the search results as the
\* server reported them; they are fetched one by one in that order; the
\* messages processed are kept in that order; and their forwards begin one
\* by one in that order, each after the one before has ended.
C24_ServerOrderKept ==
    [][\A c \in Frames :
          LET f == frame'[c]
              pos(u) == CHOOSE k \in 1..Len(f.results) : f.results[k] = u
          IN  /\ f.uids = f.results
              /\ f.fetched = SubSeq(f.results, 1, Len(f.fetched))
              /\ \A i \in 1..Len(f.emails) :
                     /\ \E k \in 1..Len(f.fetched) : f.fetched[k] = f.emails[i].uid
                     /\ \A j \in 1..(i - 1) :
                            pos(f.emails[j].uid) < pos(f.emails[i].uid)
              /\ (f.ei # frame[c].ei /\ f.ei >= 1) =>
                     /\ f.ei = frame[c].ei + 1
                     /\ Len(f.outcome) = frame[c].ei
                     /\ Len(f.fetched) = Len(f.results)
                     /\ f.sends = <<Send("text", 0)>>]_vars

\* The server reported 2 before 1, and both messages have been forwarded,
\* 2 first.
C24_Witness ==
    \E c \in Frames :
        /\ frame[c].results = <<2, 1>>
        /\ Len(frame[c].emails) = 2
        /\ frame[c].emails[1].uid = 2
        /\ Len(frame[c].outcome) = 2

\* C25: a stop() whose disconnect() calls imap.end() does so on a connection
\* that has not been asked to end before: a disconnect() that follows
\* another one, with no connect in between, calls nothing, the end event
\* delivered or not.
C25_DisconnectIdempotent ==
    [][(issued' = <<"disconnect">> /\ EndCalled(isConnected)) =>
           conn[imap] # "ending"]_vars

ServerUp ==
    /\ \A k \in Conns :
           ~(conn[k] \in {"connecting", "ready"} /\ conn'[k] = "closed")
    /\ \A c \in Frames :
           (SessionReady /\ frame[c].pc \in {"open", "search"}
            /\ frame'[c] # frame[c]) => frame'[c].err = NoErr

\* A step in which a cycle's search completes successfully.
Searched ==
    \E c \in Frames :
        /\ frame[c].pc = "search"
        /\ frame'[c].pc # "search"
        /\ frame'[c].err = NoErr

\* C27: if from some point on the mail server is up, then, the poll timer
\* firing again and again, cycles complete their search again and again.
C27_SessionRecovers == (<>[][ServerUp]_vars) => []<><<Searched>>_vars

\* C28: the cycle that was started comes to its end, completed or failed.
C28_CycleEnds == <>(\A c \in Frames : Free(c))

\* C29: an acknowledged file send is followed by the inter-send delay, and
\* the next gateway call of the forward is issued only when that delay has
\* elapsed; a failed file send is followed at once by its failure notice.
C29_DelayAfterFileSend ==
    [][\A c \in Frames :
         LET f == frame[c]
             g == frame'[c]
         IN  /\ (f.pc = "file" /\ g.acks = Append(f.acks, TRUE))
                    => (g.pc = "delay" /\ g.sends = f.sends)
             /\ (/\ Len(g.sends) > Len(f.sends)
                 /\ Len(f.sends) > 0
                 /\ Len(f.acks) = Len(f.sends)
                 /\ f.sends[Len(f.sends)].kind = "file"
                 /\ f.acks[Len(f.acks)] = TRUE)
                    => f.pc = "delay"
             /\ (f.pc = "file" /\ g.acks = Append(f.acks, FALSE))
                    => (/\ g.pc = "notice"
                        /\ g.sends = Append(f.sends, Send("notice", f.ai)))]_vars

\* The first attachment failed and its notice followed; the second was
\* acknowledged, its delay has elapsed and the forward has resolved.
C29_Witness ==
    \E c \in Frames :
        /\ frame[c].pc = "unlink"
        /\ Len(frame[c].sends) = 4
        /\ frame[c].sends[2].kind = "file"
        /\ frame[c].acks[2] = FALSE
        /\ frame[c].sends[3].kind = "notice"
        /\ frame[c].sends[4].kind = "file"
        /\ frame[c].acks[4] = TRUE

\* The summaries among the gateway calls of a forward.
Summaries(f) == {i \in 1..Len(f.sends) : f.sends[i].kind = "summary"}

\* C30: a forward issues one skip summary when its message has a skipped
\* attachment and none otherwise, after every attachment send, and only when
\* a delay has elapsed since the gateway send before it.
C30_SummaryAfterDelay ==
    [][\A c \in Frames :
         LET f == frame[c]
             g == frame'[c]
         IN  /\ (g.pc # "idle" /\ g.ei > 0 /\ g.ei <= Len(g.emails))
                    => /\ Cardinality(Summaries(g)) <= 1
                       /\ (Summaries(g) # {}) => Len(Email(g).skipped) > 0
             /\ (g.pc = "summary" /\ f.pc # "summary")
                    => /\ \A j \in 1..Len(Email(g).atts) :
                            \E i \in 1..Len(f.sends) :
                                f.sends[i] = Send("file", j)
                       /\ f.pc \in {"delay", "delayS"}]_vars

\* C31: when the fetch of a further identifier is issued, every message
\* parsed before it has been forwarded, and the files of every message
\* forwarded with success have been handed to fs.unlink.
C31_OneIdentifierAtATime ==
    [][\A c \in Frames :
         LET f == frame[c]
             g == frame'[c]
         IN  (g.pc = "fetch" /\ g.ui > 1 /\ g.ui # f.ui)
                 => /\ Len(g.outcome) = Len(g.emails)
                    /\ \A i \in 1..Len(g.emails) :
                          g.outcome[i] = "ok" =>
                              \A j \in 1..Len(g.emails[i].atts) :
                                  \E n \in 1..Len(g.unlinked) :
                                      g.unlinked[n] =
                                          <<i, g.emails[i].atts[j].path>>]_vars

\* The cycle of frame f has forwarded the message of identifier u.
Forwarded(f, u) ==
    \E i \in 1..Len(f.outcome) : f.emails[i].uid = u /\ f.outcome[i] = "ok"

\* C32: no identifier is fetched and forwarded by two cycles.
C32_ForwardedOnce ==
    \A c1, c2 \in Frames : \A u \in 1..MaxUid :
        c1 # c2 => ~(Forwarded(frame[c1], u) /\ Forwarded(frame[c2], u))

\* C33: isConnected is true only while the current connection has emitted
\* "ready" and neither "error" nor "end" since, and at most one connection
\* is live.
C33_FlagFollowsCurrent ==
    /\ isConnected => (imap # 0 /\ conn[imap] \in {"ready", "ending"})
    /\ Cardinality({k \in Conns : conn[k] \in {"connecting", "ready"}}) <= 1

\* stop() has just returned and the process lives on.
JustStopped == exitCode = "none" /\ issued = <<"disconnect">>

\* C34: the step that follows a stop() does not set isRunning, starts no
\* cycle and leaves checkInterval null.
C34_StoppedIsTerminal ==
    [][JustStopped =>
           /\ ~isRunning'
           /\ checkInterval' = "null"
           /\ \A c \in Frames : Free(c) => Free(c)']_vars

\* C35: on a forwarder that was started and has been stopped, no step calls
\* connect().
C35_NoConnectAfterStop ==
    [][(startPc = "running" /\ ~isRunning) =>
           \A i \in 1..Len(issued') : issued'[i] # "connect"]_vars

\* The attachment lists of a processed message against its raw payloads:
\* every payload within the ceiling was written once, in order; attachments
\* holds the references of the writes that succeeded, in order; and
\* skippedAttachments the payloads over the ceiling, in order.
ListsFollowRaw(e) ==
    LET raw == mailbox[e.uid].atts
        within == Ascending({j \in 1..Len(raw) : ~Exceeds(raw[j].size)})
        over == Ascending({j \in 1..Len(raw) : Exceeds(raw[j].size)})
        stored == SelectSeq(e.writes, LAMBDA w : w.ok)
    IN  /\ Len(e.writes) = Len(within)
        /\ \A k \in 1..Len(within) : e.writes[k].att = within[k]
        /\ e.atts = [k \in 1..Len(stored) |->
                        Ref(raw[stored[k].att], stored[k].path)]
        /\ e.skipped = [k \in 1..Len(over) |-> Skipped(raw[over[k]])]

\* C36: the lists of every processed message follow its raw payloads, and
\* the settling of a write, failed or not, never drops the message: when
\* processEmail leaves its last write the message is pushed for forwarding.
C36_AttachmentNeverFailsMessage ==
    /\ [](\A c \in Frames : \A i \in 1..Len(frame[c].emails) :
              ListsFollowRaw(frame[c].emails[i]))
    /\ [][\A c \in Frames :
            (frame[c].pc = "write" /\ frame'[c].pc # "write")
                => Len(frame'[c].emails) = Len(frame[c].emails) + 1]_vars

\* A message of two payloads within the ceiling has been processed: the
\* write of the first failed, the second is in attachments.
C36_Witness ==
    \E c \in Frames : \E i \in 1..Len(frame[c].emails) :
        LET e == frame[c].emails[i]
        IN  /\ Len(e.writes) = 2
            /\ ~e.writes[1].ok
            /\ e.writes[2].ok
            /\ Len(e.atts) = 1

\* C37: no step of a cycle ends the process or touches the lifecycle; a
\* cycle that met an error either awaits its reconnect or has returned; and
\* on a running forwarder a cycle that failed leaves the poll timer able to
\* start the next one (a connection identifier being left for it when it
\* has to connect).
C37_ProcessEmailsNeverRejects ==
    /\ [][\A c \in Frames :
            (InFlight(c) /\ frame'[c] # frame[c])
                => /\ exitCode' = exitCode
                   /\ startPc' = startPc
                   /\ isRunning' = isRunning
                   /\ checkInterval' = checkInterval]_vars
    /\ [](\A c \in Frames :
            /\ frame[c].err # NoErr => frame[c].pc \in {"reconnect", "done"}
            /\ (/\ frame[c].err # NoErr
                /\ frame[c].pc = "done"
                /\ Alive /\ isRunning /\ checkInterval = "armed"
                /\ (isConnected \/ FreeConns(conn) # {}))
                   => ENABLED PollTick)

\* On a running forwarder a cycle has failed, its reconnect has failed too,
\* and it has returned.
C37_Witness ==
    \E c \in Frames :
        /\ Alive /\ isRunning /\ checkInterval = "armed"
        /\ frame[c].pc = "done"
        /\ frame[c].err.sig
        /\ frame[c].k # 0
        /\ conn[frame[c].k] = "closed"

\* The kinds of the gateway calls of a forward.
Kinds(f) == {f.sends[i].kind : i \in 1..Len(f.sends)}

QuietStep(c) ==
    /\ frame[c].pc \in {"search", "fetch"}
    /\ frame'[c] # frame[c]
    /\ frame'[c].pc # "write"
    /\ frame'[c].err = NoErr
    /\ frame'[c].emails = <<>>

\* What such a step leaves alone: no gateway call, no file written or
\* deleted, no disconnect and no connect.
QuietEffect(c) ==
    /\ frame'[c].sends = <<>>
    /\ frame'[c].unlinked = <<>>
    /\ files' = files
    /\ conn' = conn
    /\ imap' = imap
    /\ isConnected' = isConnected
    /\ issued' = <<>>

====
